---- MODULE Spec2Model ----
(***************************************************************************)
(* Model of the YubiKey provider (src/src/hsm/yubikey/provider.rs):        *)
(* create_key, load_key, save_key_object, parse_slot_data, get_free_slot.  *)
(* The device is a store of key slots and of data objects; strings are     *)
(* sequences of bytes so that the NUL-separated record layout is computed. *)
(***************************************************************************)
EXTENDS Integers, Sequences, FiniteSets, TLC

(* ------------------------------ bounds --------------------------------- *)
\* number of provider calls explored from the empty device
MaxOps == 2
\* number of provider calls explored from a device that already holds records
MaxOpsUsed == 1
\* number of characters of a field of the records given to the codec
MaxFieldChars == 1
\* number of calls and token events explored around initialize_module
MaxInitOps == 4
\* largest value a token's PIN retry counter is reset to
MaxPinRetries == 3

(* --------------------------- the slot table ---------------------------- *)
\* SLOTS[0] = 0x005f_c10d; the table is 20 consecutive object ids
SlotBase == 6275341
NumSlots == 20
SLOTS == [i \in 0..(NumSlots - 1) |-> SlotBase + i]

\* `i - 10` in load_key and get_free_slot: object index -> key-slot index
PairOffset == 10
\* `for i in 10..19` of load_key (end exclusive)
LoadScanFirst == 10
LoadScanEnd == 19
\* `for i in 10..19` of get_free_slot (end exclusive)
FreeScanFirst == 10
FreeScanEnd == 19

\* ids the provider passes to piv::generate: SLOTS[i - 10]
KeySlotIds == {SLOTS[i] : i \in 0..(PairOffset - 1)}
\* ids of the data objects the table names
ObjectIds == {SLOTS[i] : i \in 0..(NumSlots - 1)}
\* the object slots paired with the key slots: SLOTS[10..19]
PoolIdx == PairOffset..(NumSlots - 1)
\* the number of (key slot, object slot) pairs
PoolSize == NumSlots - PairOffset

(* ------------------------------ strings -------------------------------- *)
StrEncrypt == <<101, 110, 99, 114, 121, 112, 116>>
StrSign == <<115, 105, 103, 110>>
StrDecrypt == <<100, 101, 99, 114, 121, 112, 116>>
StrEmpty == << >>
PemBegin == <<45, 45, 45, 45, 45, 66, 69, 71, 73, 78, 32, 80, 85, 66, 76, 73, 67, 32, 75, 69, 89, 45, 45, 45, 45, 45, 10>>
PemEnd == <<10, 45, 45, 45, 45, 45, 69, 78, 68, 32, 80, 85, 66, 76, 73, 67, 32, 75, 69, 89, 45, 45, 45, 45, 45>>
B64Alphabet == <<65, 66, 67, 68, 69, 70, 71, 72, 73, 74, 75, 76, 77, 78, 79, 80, 81, 82, 83, 84, 85, 86, 87, 88, 89, 90, 97, 98, 99, 100, 101, 102, 103, 104, 105, 106, 107, 108, 109, 110, 111, 112, 113, 114, 115, 116, 117, 118, 119, 120, 121, 122, 48, 49, 50, 51, 52, 53, 54, 55, 56, 57, 43, 47>>

\* u32::to_string: decimal digits, most significant first
RECURSIVE ToDecimal(_)
ToDecimal(n) ==
  IF n < 10 THEN <<48 + n>>
  ELSE Append(ToDecimal(n \div 10), 48 + (n % 10))

\* general_purpose::STANDARD.encode: 3 bytes -> 4 characters, '=' padding
RECURSIVE Base64(_)
Base64(bs) ==
  LET ch(v) == B64Alphabet[v + 1]
  IN IF Len(bs) = 0 THEN << >>
     ELSE IF Len(bs) = 1 THEN
       <<ch(bs[1] \div 4), ch((bs[1] % 4) * 16), 61, 61>>
     ELSE IF Len(bs) = 2 THEN
       <<ch(bs[1] \div 4), ch((bs[1] % 4) * 16 + bs[2] \div 16),
         ch((bs[2] % 16) * 4), 61>>
     ELSE
       <<ch(bs[1] \div 4), ch((bs[1] % 4) * 16 + bs[2] \div 16),
         ch((bs[2] % 16) * 4 + bs[3] \div 64), ch(bs[3] % 64)>>
       \o Base64(SubSeq(bs, 4, Len(bs)))

IsSpace(c) == c \in {9, 10, 11, 12, 13, 32}

\* str::trim: drop leading and trailing whitespace
RECURSIVE Trim(_)
Trim(s) ==
  IF Len(s) = 0 THEN s
  ELSE IF IsSpace(s[1]) THEN Trim(Tail(s))
  ELSE IF IsSpace(s[Len(s)]) THEN Trim(SubSeq(s, 1, Len(s) - 1))
  ELSE s

\* format!("-----BEGIN PUBLIC KEY-----\n{}\n-----END PUBLIC KEY-----", b64.trim())
\* applied to the base64 of the DER encoding of the generated public key
PemOf(der) == PemBegin \o Trim(Base64(der)) \o PemEnd

(* --------------------------- Metadata codec ---------------------------- *)
\* a layout that leaves out the separator in front of the public key
EncodeRecord_NoSeparator(key_name, slot_id, usage, public_key) ==
  key_name \o <<0>> \o ToDecimal(slot_id) \o <<0>> \o usage \o public_key

\* the byte layout save_key_object builds: key_name 0 slot 0 usage 0 public_key
EncodeRecord(key_name, slot_id, usage, public_key) ==
  key_name \o <<0>> \o ToDecimal(slot_id) \o <<0>> \o usage \o <<0>> \o public_key

\* data.split(|&x| x == 0) from position k on, nuls being the positions of
\* the NUL bytes: the segments between them (always at least one segment,
\* possibly empty)
RECURSIVE SplitFrom(_, _, _)
SplitFrom(data, nuls, k) ==
  LET rest == {p \in nuls : p >= k}
  IN IF rest = {} THEN <<SubSeq(data, k, Len(data))>>
     ELSE LET p == CHOOSE q \in rest : \A o \in rest : q <= o
          IN <<SubSeq(data, k, p - 1)>> \o SplitFrom(data, nuls, p + 1)

SplitNul(data) == SplitFrom(data, {k \in 1..Len(data) : data[k] = 0}, 1)

\* std::str::from_utf8 succeeds on s from position k on: lead byte classes
\* and continuation bytes
RECURSIVE Utf8From(_, _)
Utf8From(s, k) ==
  LET cont(j) == j <= Len(s) /\ s[j] >= 128 /\ s[j] < 192
  IN IF k > Len(s) THEN TRUE
     ELSE IF s[k] < 128 THEN Utf8From(s, k + 1)
     ELSE IF s[k] >= 194 /\ s[k] < 224 THEN
       cont(k + 1) /\ Utf8From(s, k + 2)
     ELSE IF s[k] >= 224 /\ s[k] < 240 THEN
       cont(k + 1) /\ cont(k + 2) /\ Utf8From(s, k + 3)
     ELSE IF s[k] >= 240 /\ s[k] < 245 THEN
       cont(k + 1) /\ cont(k + 2) /\ cont(k + 3) /\ Utf8From(s, k + 4)
     ELSE FALSE

IsUtf8(s) == (\A k \in 1..Len(s) : s[k] < 128) \/ Utf8From(s, 1)

\* Ok((key_name, slot, usage, public_key)) when the first four segments exist
\* and are UTF-8; further segments are ignored
parse_slot_data(data) ==
  LET parts == SplitNul(data)
  IN IF Len(parts) >= 4 /\ \A k \in 1..4 : IsUtf8(parts[k])
     THEN [ok |-> TRUE, key_name |-> parts[1], slot |-> parts[2],
           usage |-> parts[3], public_key |-> parts[4]]
     ELSE [ok |-> FALSE, key_name |-> << >>, slot |-> << >>,
           usage |-> << >>, public_key |-> << >>]

(* ------------------------------ inputs --------------------------------- *)
\* logical key ids "k1" and "k2"
KeyIds == {<<107, 49>>, <<107, 50>>}
\* HsmProviderConfig: key_algorithm and key_usage
Configs == [algo : {"Rsa", "Ecc"}, usage : {"SignEncrypt", "Decrypt"}]

\* `let mut slot: u32;` is read by save_key_object without having been
\* assigned on the new-key path and on the Ecc/Decrypt arms: the value is
\* any u32.  Representatives: no object id at all (0), the id of a key slot
\* (SLOTS[0]), ids of scanned object slots (SLOTS[10], SLOTS[11]) and of the
\* object slot the scans leave out (SLOTS[19]).
UninitSlot == {0, SLOTS[0], SLOTS[10], SLOTS[11], SLOTS[19]}

\* what the device and the unassigned `slot` contribute to one create_key:
\* when generation fails nothing else is looked at, and when the save fails
\* the id it was aimed at has no effect
DeviceAnswers ==
  {d \in [genOk : BOOLEAN, saveOk : BOOLEAN, uninit : UninitSlot] :
     (~d.genOk \/ ~d.saveOk) => (d.saveOk \/ d.genOk) /\ d.uninit = 0}

(* ------------------------------- state --------------------------------- *)
VARIABLES
  objects,    \* device: object id -> stored bytes (<< >> when absent)
  keys,       \* device: key slot id -> key pair, or NoKey
  provider,   \* YubiKeyProvider fields key_algo, key_usages, slot_id, pkey
  genCount,   \* device: number of key pairs generated so far
  last,       \* the provider call that produced this state and its outcome
  assigned,   \* history: key slot id -> key ids a successful create_key generated there
  created,    \* history: key ids for which a create_key returned Ok
  ops,        \* number of provider calls so far
  token,      \* the attached token, its PIN state, and the provider's handle on it
  codec       \* a record given to the metadata codec and what came back

vars == <<objects, keys, provider, genCount, last, assigned, created, ops,
          token, codec>>

NoKey == [algo |-> "None", serial |-> 0]

\* public key material the device returns from piv::generate, DER-encoded
\* (to_der): a SEQUENCE tag, an algorithm tag, the key's serial number
DerOf(key) == <<48, IF key.algo = "Rsa2048" THEN 1 ELSE 2, key.serial>>

\* what get_free_slot wraps in Ok when the scan ends: not a slot id
NoFreeSlotMsg == -1

(* ------------------------------ Slot pool ------------------------------ *)
\* fetch_object: the stored bytes, or the empty Vec when the fetch fails
fetch_object(objs, id) == IF id \in DOMAIN objs THEN objs[id] ELSE << >>

\* the `for i in 10..19` loop of get_free_slot: the first scanned object
\* that does not parse gives SLOTS[i - 10]; after the loop the function
\* returns Ok("No free slot available")
RECURSIVE FreeScan(_, _)
FreeScan(objs, i) ==
  IF i >= FreeScanEnd THEN [ok |-> TRUE, value |-> NoFreeSlotMsg]
  ELSE IF parse_slot_data(fetch_object(objs, SLOTS[i])).ok
       THEN FreeScan(objs, i + 1)
       ELSE [ok |-> TRUE, value |-> SLOTS[i - PairOffset]]

get_free_slot(objs) == FreeScan(objs, FreeScanFirst)

(* ------------------------------ Key lookup ----------------------------- *)
\* the `for i in 10..19` loop of load_key.  slot_id is assigned before the
\* usage label is matched, so an unknown label leaves it changed and the
\* scan goes on (`_ => continue`).
RECURSIVE LoadScan(_, _, _, _)
LoadScan(objs, st, key_id, i) ==
  IF i >= LoadScanEnd THEN [found |-> FALSE, st |-> st]
  ELSE
    LET r == parse_slot_data(fetch_object(objs, SLOTS[i]))
        st1 == [st EXCEPT !.slot_id = SLOTS[i - PairOffset]]
    IN IF r.ok /\ r.key_name = key_id THEN
         IF r.usage = StrSign \/ r.usage = StrEncrypt THEN
           [found |-> TRUE,
            st |-> [st1 EXCEPT !.key_usages = "SignEncrypt", !.pkey = r.public_key]]
         ELSE IF r.usage = StrDecrypt THEN
           [found |-> TRUE,
            st |-> [st1 EXCEPT !.key_usages = "Decrypt", !.pkey = r.public_key]]
         ELSE LoadScan(objs, st1, key_id, i + 1)
       ELSE LoadScan(objs, st, key_id, i + 1)

\* a load_key whose scan takes any decodable record for the key looked up
load_key_AnyRecord(objs, st, key_id) ==
  LET sc == LoadScan(objs, st, key_id, LoadScanFirst)
      hit == \E i \in LoadScanFirst..(LoadScanEnd - 1) :
               parse_slot_data(fetch_object(objs, SLOTS[i])).ok
  IN [result |-> IF sc.found \/ hit THEN "Ok" ELSE "KeyNotFound", st |-> sc.st]

\* load_key(key_id, config): Ok(()) when found, Err("Key not found") otherwise
load_key(objs, st, key_id) ==
  LET sc == LoadScan(objs, st, key_id, LoadScanFirst)
  IN [result |-> IF sc.found THEN "Ok" ELSE "KeyNotFound", st |-> sc.st]

(* --------------------------- Key provisioning -------------------------- *)
\* the arm of the nested `match self.key_usages { .. match self.key_algo`
\* that has no statements (`// TODO, not tested, might work`)
TodoArm(st) == st.key_usages = "Decrypt" /\ st.key_algo = "Ecc"

\* the label each arm assigns to `usage` (initially "")
UsageLabel(st) ==
  IF st.key_usages = "SignEncrypt" /\ st.key_algo = "Rsa" THEN StrEncrypt
  ELSE IF st.key_usages = "SignEncrypt" /\ st.key_algo = "Ecc" THEN StrSign
  ELSE IF st.key_usages = "Decrypt" /\ st.key_algo = "Rsa" THEN StrDecrypt
  ELSE StrEmpty

\* the AlgorithmId each arm passes to piv::generate
GenAlgorithm(st) == IF st.key_algo = "Rsa" THEN "Rsa2048" ELSE "EccP256"

\* save_key_object: build the record and save_object(slot_id, data); the
\* device rejects ids that are not data objects and may fail (saveOk)
save_key_object(objs, usage, key_id, slot_id, pkey, saveOk) ==
  LET data == EncodeRecord(key_id, slot_id, usage, pkey)
      stored == saveOk /\ slot_id \in ObjectIds
  IN [ok |-> stored,
      objs |-> IF stored THEN [objs EXCEPT ![slot_id] = data] ELSE objs]

\* number of scanned object slots get_free_slot would accept as free
FreeCount(objs) ==
  Cardinality({i \in FreeScanFirst..(FreeScanEnd - 1) :
                 ~parse_slot_data(fetch_object(objs, SLOTS[i])).ok})

\* a create_key that goes on to save_key_object after a failed generation
GenFailureIgnored(todo, genWorks) == FALSE

\* `match gen_key { .. Err(err) => return Err(SecurityModuleError::Hsm(err)) }`:
\* an arm that called piv::generate returns when the generation failed
GenFailureReturns(todo, genWorks) == ~todo /\ ~genWorks

\* create_key(key_id, config).  genOk and saveOk are the device's answers to
\* piv::generate and save_object, uninit the value of the unassigned `slot`.
create_key(objs, ks, st0, serial, key_id, cfg, genOk, saveOk, uninit) ==
  LET st1 == [st0 EXCEPT !.key_algo = cfg.algo, !.key_usages = cfg.usage]
      lk == load_key(objs, st1, key_id)
      found == lk.result = "Ok"
      st2 == lk.st
      todo == TodoArm(st2)
      free == get_free_slot(objs)
      askFree == ~found /\ ~todo
      st3 == IF askFree /\ free.ok THEN [st2 EXCEPT !.slot_id = free.value] ELSE st2
      genWorks == genOk /\ st3.slot_id \in KeySlotIds
      key == [algo |-> GenAlgorithm(st3), serial |-> serial + 1]
      generated == ~todo /\ genWorks
      st4 == [st3 EXCEPT !.pkey = PemOf(DerOf(key))]
      slot == IF found /\ ~todo THEN st2.slot_id ELSE uninit
      stF == IF generated THEN st4 ELSE st3
      sv == save_key_object(objs, UsageLabel(st2), key_id, slot, stF.pkey, saveOk)
      base == [found |-> found, free |-> IF askFree THEN free.value ELSE 0,
               gen |-> "none", genSlot |-> 0, save |-> "none", saveSlot |-> 0,
               genAlgo |-> "None", label |-> << >>,
               objs |-> objs, ks |-> ks, serial |-> serial]
  IN IF askFree /\ ~free.ok THEN
       \* Err(err) => return Err(InitializationError("No free slot available"))
       [base EXCEPT !.free = 0] @@ [result |-> "NoFreeSlot", st |-> st2]
     ELSE IF GenFailureReturns(todo, genWorks) THEN
       \* Err(err) => return Err(SecurityModuleError::Hsm(err))
       [base EXCEPT !.gen = "failed", !.genSlot = st3.slot_id,
                    !.genAlgo = GenAlgorithm(st3)]
         @@ [result |-> "DeviceError", st |-> st3]
     ELSE
       \* save_key_object(..); Ok(())
       [base EXCEPT !.gen = IF todo THEN "none" ELSE IF genWorks THEN "ok" ELSE "failed",
                    !.genSlot = IF todo THEN 0 ELSE st3.slot_id,
                    !.genAlgo = IF todo THEN "None" ELSE GenAlgorithm(st3),
                    !.label = UsageLabel(st2),
                    !.save = IF sv.ok THEN "ok" ELSE "failed",
                    !.saveSlot = slot,
                    !.objs = sv.objs,
                    !.ks = IF generated THEN [ks EXCEPT ![st3.slot_id] = key] ELSE ks,
                    !.serial = IF generated THEN serial + 1 ELSE serial]
         @@ [result |-> "Ok", st |-> stF]

(* ------------------------------ actions -------------------------------- *)
\* a token that is attached and whose session the provider holds
TokenReady == [present |-> TRUE, pin |-> "123456", limit |-> 1, retries |-> 1,
               session |-> TRUE]
\* no record has been given to the codec
NoCodec == [done |-> FALSE, key_name |-> << >>, slot_id |-> 0, usage |-> << >>,
            public_key |-> << >>, bytes |-> << >>, out |-> parse_slot_data(<< >>)]

NoCall == [op |-> "none", key_id |-> << >>, algo |-> "None", usage |-> "None",
           result |-> "none", found |-> FALSE, free |-> 0, gen |-> "none",
           genSlot |-> 0, save |-> "none", saveSlot |-> 0, freeBefore |-> 0,
           genAlgo |-> "None", label |-> << >>, retries |-> 0, verifies |-> 0]

\* a create_key call, with every answer the device can give
CreateKey(max) ==
  /\ ops < max
  /\ \E key_id \in KeyIds, cfg \in Configs, dev \in DeviceAnswers :
       \E r \in {create_key(objects, keys, provider, genCount, key_id, cfg,
                            dev.genOk, dev.saveOk, dev.uninit)} :
          /\ objects' = r.objs
          /\ keys' = r.ks
          /\ provider' = r.st
          /\ genCount' = r.serial
          /\ last' = [op |-> "create_key", key_id |-> key_id, algo |-> cfg.algo,
                      usage |-> cfg.usage, result |-> r.result, found |-> r.found,
                      free |-> r.free, gen |-> r.gen, genSlot |-> r.genSlot,
                      save |-> r.save, saveSlot |-> r.saveSlot,
                      freeBefore |-> FreeCount(objects),
                      genAlgo |-> r.genAlgo, label |-> r.label,
                      retries |-> 0, verifies |-> 0]
          /\ assigned' = IF r.result = "Ok" /\ r.gen = "ok"
                         THEN [assigned EXCEPT ![r.genSlot] = @ \cup {key_id}]
                         ELSE assigned
          /\ created' = IF r.result = "Ok" THEN created \cup {key_id} ELSE created
  /\ ops' = ops + 1
  /\ UNCHANGED <<token, codec>>

\* a load_key call
LoadKey(max) ==
  /\ ops < max
  /\ \E key_id \in KeyIds :
       \E r \in {load_key(objects, provider, key_id)} :
          /\ provider' = r.st
          /\ last' = [NoCall EXCEPT !.op = "load_key", !.key_id = key_id,
                                    !.result = r.result,
                                    !.found = (r.result = "Ok"),
                                    !.freeBefore = FreeCount(objects)]
  /\ ops' = ops + 1
  /\ UNCHANGED <<objects, keys, genCount, assigned, created, token, codec>>

\* the provider before its first call, attached to a device with no records
Init ==
  /\ objects = [id \in ObjectIds |-> << >>]
  /\ keys = [id \in KeySlotIds |-> NoKey]
  /\ provider = [key_algo |-> "None", key_usages |-> "None", slot_id |-> 0,
                 pkey |-> << >>]
  /\ genCount = 0
  /\ last = NoCall
  /\ assigned = [id \in KeySlotIds |-> {}]
  /\ created = {}
  /\ ops = 0
  /\ token = TokenReady
  /\ codec = NoCodec

Next == CreateKey(MaxOps) \/ LoadKey(MaxOps)

Spec == Init /\ [][Next]_vars

(* ------------------ a device that already holds records ---------------- *)
\* records left by earlier sessions: pair k holds key "o<k>", an RSA key pair
\* and the record create_key writes when its save lands in the paired object
PriorName(k) == <<111, 48 + k>>
PriorKey(k) == [algo |-> "Rsa2048", serial |-> 100 + k]
PriorRecord(k) ==
  EncodeRecord(PriorName(k), SLOTS[k + PairOffset], StrEncrypt, PemOf(DerOf(PriorKey(k))))
\* a record cut after its second field
TruncatedRecord(k) == PriorName(k) \o <<0>> \o ToDecimal(SLOTS[k + PairOffset])

\* pairs 0..n-1 are occupied, except pair h whose object is truncated
UsedPools ==
  {[n |-> n, h |-> h] : n \in (PoolSize - 2)..PoolSize, h \in -1..(PoolSize - 1)}

InitUsed ==
  /\ \E u \in UsedPools :
       /\ u.h < u.n
       /\ objects = [id \in ObjectIds |->
                       LET k == id - SlotBase - PairOffset
                       IN IF k < 0 \/ k >= u.n THEN << >>
                          ELSE IF k = u.h THEN TruncatedRecord(k)
                          ELSE PriorRecord(k)]
       /\ keys = [id \in KeySlotIds |->
                    LET k == id - SlotBase
                    IN IF k < u.n /\ k # u.h THEN PriorKey(k) ELSE NoKey]
  /\ provider = [key_algo |-> "None", key_usages |-> "None", slot_id |-> 0,
                 pkey |-> << >>]
  /\ genCount = 0
  /\ last = NoCall
  /\ assigned = [id \in KeySlotIds |-> {}]
  /\ created = {}
  /\ ops = 0
  /\ token = TokenReady
  /\ codec = NoCodec

NextUsed == CreateKey(MaxOpsUsed) \/ LoadKey(MaxOpsUsed)

SpecUsed == InitUsed /\ [][NextUsed]_vars

(* --------------------------- the codec alone --------------------------- *)
\* characters of the fields given to the codec: "a", a line feed and the
\* two-byte character U+00E9; Rust strings are UTF-8, a NUL is left out
FieldChars == {<<97>>, <<10>>, <<195, 169>>}
\* the strings of at most n such characters
RECURSIVE FieldStrings(_)
FieldStrings(n) ==
  IF n = 0 THEN {<< >>}
  ELSE LET shorter == FieldStrings(n - 1)
       IN shorter \cup {str \o c : str \in shorter, c \in FieldChars}
\* slot ids given to the codec
CodecSlots == {0, 7, SLOTS[0], SLOTS[NumSlots - 1]}

InitCodec ==
  /\ objects = [id \in ObjectIds |-> << >>]
  /\ keys = [id \in KeySlotIds |-> NoKey]
  /\ provider = [key_algo |-> "None", key_usages |-> "None", slot_id |-> 0,
                 pkey |-> << >>]
  /\ genCount = 0
  /\ last = NoCall
  /\ assigned = [id \in KeySlotIds |-> {}]
  /\ created = {}
  /\ ops = 0
  /\ token = TokenReady
  /\ \E key_name \in FieldStrings(MaxFieldChars), usage \in FieldStrings(MaxFieldChars),
        public_key \in FieldStrings(MaxFieldChars), slot_id \in CodecSlots :
       codec = [NoCodec EXCEPT !.key_name = key_name, !.slot_id = slot_id,
                               !.usage = usage, !.public_key = public_key]

\* the bytes save_key_object builds for the record, given to parse_slot_data
RoundTrip ==
  /\ ~codec.done
  /\ \E data \in {EncodeRecord(codec.key_name, codec.slot_id, codec.usage,
                               codec.public_key)} :
       codec' = [codec EXCEPT !.done = TRUE, !.bytes = data,
                              !.out = parse_slot_data(data)]
  /\ UNCHANGED <<objects, keys, provider, genCount, last, assigned, created, ops, token>>

NextCodec == RoundTrip

SpecCodec == InitCodec /\ [][NextCodec]_vars

(* ----------------------------- Initialization -------------------------- *)
\* the PIN initialize_module verifies: "123456".as_ref()
DefaultPin == "123456"
\* PINs a token may be set to
TokenPins == {"123456", "654321"}

\* the device's verify_pin: a blocked counter refuses every PIN, the right
\* PIN resets the counter, a wrong PIN takes one retry away
verify_pin(tok, pin) ==
  IF tok.retries = 0 THEN [ok |-> FALSE, tok |-> tok]
  ELSE IF pin = tok.pin THEN [ok |-> TRUE, tok |-> [tok EXCEPT !.retries = tok.limit]]
  ELSE [ok |-> FALSE, tok |-> [tok EXCEPT !.retries = tok.retries - 1]]

\* the device's get_pin_retries: reads the counter
get_pin_retries(tok) == tok.retries

\* an initialize_module that reports the retry counter as it was before the
\* PIN was tried
initialize_module_StaleRetries(tok) ==
  IF ~tok.present THEN [result |-> "Panic", retries |-> 0, verifies |-> 0, tok |-> tok]
  ELSE LET v == verify_pin(tok, DefaultPin)
       IN [result |-> IF v.ok THEN "Ok" ELSE "WrongPin",
           retries |-> IF v.ok THEN 0 ELSE get_pin_retries(tok),
           verifies |-> 1, tok |-> [v.tok EXCEPT !.session = TRUE]]

\* initialize_module: YubiKey::open().unwrap() aborts when no token is there;
\* otherwise one verify_pin, the handle is stored, and a failed verification
\* returns Err(Hsm("Failed to verify PIN, retries: {}", get_pin_retries()))
initialize_module(tok) ==
  IF ~tok.present THEN [result |-> "Panic", retries |-> 0, verifies |-> 0, tok |-> tok]
  ELSE LET v == verify_pin(tok, DefaultPin)
       IN [result |-> IF v.ok THEN "Ok" ELSE "WrongPin",
           retries |-> IF v.ok THEN 0 ELSE get_pin_retries(v.tok),
           verifies |-> 1, tok |-> [v.tok EXCEPT !.session = TRUE]]

\* an initialize_module call
InitializeModule ==
  /\ ops < MaxInitOps
  /\ \E r \in {initialize_module(token)} :
       /\ token' = r.tok
       /\ last' = [NoCall EXCEPT !.op = "initialize_module", !.result = r.result,
                                 !.retries = r.retries, !.verifies = r.verifies]
  /\ ops' = ops + 1
  /\ UNCHANGED <<objects, keys, provider, genCount, assigned, created, codec>>

\* the token is plugged in
InsertToken ==
  /\ ops < MaxInitOps
  /\ ~token.present
  /\ token' = [token EXCEPT !.present = TRUE]
  /\ last' = [NoCall EXCEPT !.op = "insert"]
  /\ ops' = ops + 1
  /\ UNCHANGED <<objects, keys, provider, genCount, assigned, created, codec>>

\* the token is pulled out
RemoveToken ==
  /\ ops < MaxInitOps
  /\ token.present
  /\ token' = [token EXCEPT !.present = FALSE]
  /\ last' = [NoCall EXCEPT !.op = "remove"]
  /\ ops' = ops + 1
  /\ UNCHANGED <<objects, keys, provider, genCount, assigned, created, codec>>

\* a provider that has not been initialized, with or without a token
InitToken ==
  /\ objects = [id \in ObjectIds |-> << >>]
  /\ keys = [id \in KeySlotIds |-> NoKey]
  /\ provider = [key_algo |-> "None", key_usages |-> "None", slot_id |-> 0,
                 pkey |-> << >>]
  /\ genCount = 0
  /\ last = NoCall
  /\ assigned = [id \in KeySlotIds |-> {}]
  /\ created = {}
  /\ ops = 0
  /\ codec = NoCodec
  /\ \E present \in BOOLEAN, pin \in TokenPins, limit \in 1..MaxPinRetries :
       \E retries \in 0..limit :
         token = [present |-> present, pin |-> pin, limit |-> limit,
                  retries |-> retries, session |-> FALSE]

NextInit == InitializeModule \/ InsertToken \/ RemoveToken

SpecInit == InitToken /\ [][NextInit]_vars

(* ============================== claims ================================= *)
\* the decoded content of the object slot with table index i
RecordAt(i) == parse_slot_data(fetch_object(objects, SLOTS[i]))
\* the object slot paired with a key slot id
PairedObject(slot_id) == slot_id + PairOffset
CreateOk == last.op = "create_key" /\ last.result = "Ok"

\* C1: whenever create_key(id, cfg) has returned success, a load_key(id, cfg)
\* issued next returns success and sets slot_id, key usage and cached public
\* key to the values create_key recorded (stated for the calls in which the
\* device generated the key and stored the record).
C1_CreateThenLoad ==
  (CreateOk /\ last.gen = "ok" /\ last.save = "ok") =>
    \E r \in {load_key(objects, provider, last.key_id)} :
      /\ r.result = "Ok"
      /\ r.st.slot_id = provider.slot_id
      /\ r.st.key_usages = provider.key_usages
      /\ r.st.pkey = provider.pkey

\* C2: from an empty pool, no key slot is ever given by create_key to two
\* distinct key ids, and a key slot that holds a key pair keeps holding one.
C2_ExclusiveSlots ==
  [][/\ \A s \in KeySlotIds : Cardinality(assigned'[s]) <= 1
     /\ \A s \in KeySlotIds : keys[s] # NoKey => keys'[s] # NoKey]_vars

\* C3: a successful create_key leaves its record in the object slot paired
\* with the key slot it generated in, and every well-formed record in an
\* object slot names the paired key slot, which holds the record's key pair.
C3_RecordInPairedSlot ==
  /\ (CreateOk /\ last.gen = "ok") =>
       fetch_object(objects, PairedObject(last.genSlot))
         = EncodeRecord(last.key_id, last.genSlot,
                        parse_slot_data(fetch_object(objects, PairedObject(last.genSlot))).usage,
                        provider.pkey)
  /\ \A i \in PoolIdx :
       \E r \in {RecordAt(i)} :
         r.ok => /\ r.slot = ToDecimal(SLOTS[i - PairOffset])
                 /\ keys[SLOTS[i - PairOffset]] # NoKey
                 /\ r.public_key = PemOf(DerOf(keys[SLOTS[i - PairOffset]]))

\* C4: a create_key for a key id whose record Key Lookup finds generates the
\* key in the slot the record was found in and leaves the number of free
\* slots as it was.
C4_ReuseKeepsFreeSlots ==
  (CreateOk /\ last.found) =>
    /\ last.gen = "ok"
    /\ last.genSlot = provider.slot_id
    /\ FreeCount(objects) = last.freeBefore

\* number of object slots of the pool that hold a well-formed record
Occupied(objs) ==
  Cardinality({i \in PoolIdx : parse_slot_data(fetch_object(objs, SLOTS[i])).ok})

\* C5: with N = 10 pairs, a create_key for a new key id succeeds in a slot of
\* its own while fewer than N pairs are occupied (each of N calls gets a
\* distinct slot), and fails with NoFreeSlot once all N are occupied.
C5_Capacity ==
  [][(last'.op = "create_key" /\ ~last'.found /\ ops' = ops + 1) =>
       IF Occupied(objects) = PoolSize
       THEN last'.result = "NoFreeSlot"
       ELSE last'.gen = "ok" =>
              /\ last'.genSlot \in KeySlotIds
              /\ ~parse_slot_data(fetch_object(objects, PairedObject(last'.genSlot))).ok
              /\ keys[last'.genSlot] = NoKey]_vars

\* C6: a create_key for a new key id to which the slot pool reports no free
\* slot fails with NoFreeSlot, generates nothing and leaves key slots and
\* object slots as they were.
C6_NoFreeSlotNoGeneration ==
  [][(last'.op = "create_key" /\ ~last'.found /\ ops' = ops + 1
        /\ last'.free = NoFreeSlotMsg) =>
       /\ last'.result = "NoFreeSlot"
       /\ last'.gen = "none"
       /\ keys' = keys
       /\ objects' = objects]_vars

\* C7: in every pool state find_free_slot returns the lowest-index slot whose
\* object slot is absent, empty or not decodable, and NoFreeSlot exactly when
\* the pool has no such slot (stated of the answer each create_key for a new
\* key id gets from it).
C7_LowestFreeSlot ==
  [][(last'.op = "create_key" /\ ops' = ops + 1 /\ ~last'.found
        /\ (last'.free # 0 \/ last'.result = "NoFreeSlot")) =>
       LET free == {i \in PoolIdx : ~parse_slot_data(fetch_object(objects, SLOTS[i])).ok}
       IN IF free = {}
          THEN last'.result = "NoFreeSlot"
          ELSE last'.free = SLOTS[(CHOOSE i \in free : \A j \in free : i <= j) - PairOffset]]_vars

\* C8: load_key for a key id that no create_key has succeeded for, no object
\* slot holding a record with that key_name, fails with KeyNotFound.
C8_UnknownKeyNotFound ==
  last.op = "load_key" =>
    /\ (\A i \in PoolIdx : ~(RecordAt(i).ok /\ RecordAt(i).key_name = last.key_id))
         => last.result = "KeyNotFound"
    /\ last.key_id \notin created => last.result = "KeyNotFound"

\* C8 witness: a lookup of a never-created id that had to pass a decodable
\* record of another key
C8_Witness ==
  /\ last.op = "load_key" /\ last.result = "KeyNotFound"
  /\ last.key_id \notin created
  /\ \E i \in LoadScanFirst..(LoadScanEnd - 1) : RecordAt(i).ok

\* C9: when hardware key generation fails, create_key returns the device
\* error and every object slot keeps its content.
C9_GenFailureWritesNothing ==
  [][(last'.op = "create_key" /\ last'.gen = "failed" /\ ops' = ops + 1) =>
       /\ last'.result = "DeviceError"
       /\ objects' = objects]_vars

\* C9 witness: a failed generation on a device that already holds a record
C9_Witness ==
  /\ last.op = "create_key" /\ last.gen = "failed"
  /\ last.result = "DeviceError"
  /\ \E id \in ObjectIds : objects[id] # << >>

\* C10: when the key is generated but the metadata write fails, create_key
\* does not return success.
C10_SaveFailureSurfaced ==
  (last.op = "create_key" /\ last.gen = "ok" /\ last.save = "failed")
    => last.result # "Ok"

\* C11: create_key with ECC-P256 and Decrypt is an unsupported combination:
\* on the new-key path and on the re-provisioning path it generates no key,
\* writes no record to any object slot and does not return success.
C11_EccDecryptUnsupported ==
  (last.op = "create_key" /\ last.algo = "Ecc" /\ last.usage = "Decrypt") =>
    /\ last.gen = "none"
    /\ last.save = "none"
    /\ last.result # "Ok"

\* a public key wrapped in PEM armor
IsPem(pkey) ==
  /\ Len(pkey) >= Len(PemBegin) + Len(PemEnd)
  /\ SubSeq(pkey, 1, Len(PemBegin)) = PemBegin
  /\ SubSeq(pkey, Len(pkey) - Len(PemEnd) + 1, Len(pkey)) = PemEnd

\* C12: on every successful create_key the algorithm asked of the device and
\* the usage label of the record follow from the configuration: (RSA-2048,
\* SignEncrypt) gives RSA-2048 and "encrypt", (ECC-P256, SignEncrypt) gives
\* ECC-P256 and "sign", (RSA-2048, Decrypt) gives RSA-2048 and "decrypt";
\* the stored public key is PEM-armored.
C12_ConfigDeterminesGeneration ==
  (CreateOk /\ ~(last.algo = "Ecc" /\ last.usage = "Decrypt")) =>
    /\ last.genAlgo = (IF last.algo = "Rsa" THEN "Rsa2048" ELSE "EccP256")
    /\ last.label = (IF last.usage = "Decrypt" THEN StrDecrypt
                     ELSE IF last.algo = "Rsa" THEN StrEncrypt ELSE StrSign)
    /\ IsPem(provider.pkey)

\* C13: in every state reached from the empty pool no two object slots hold
\* records with the same key_name.
C13_UniqueKeyNames ==
  \A i \in PoolIdx, j \in PoolIdx :
    (i # j /\ RecordAt(i).ok /\ RecordAt(j).ok)
      => RecordAt(i).key_name # RecordAt(j).key_name

\* str::parse::<u32> of a decimal string
RECURSIVE FromDecimal(_)
FromDecimal(str) ==
  IF Len(str) = 0 THEN 0
  ELSE 10 * FromDecimal(SubSeq(str, 1, Len(str) - 1)) + (str[Len(str)] - 48)

\* C14: for every record whose four fields hold no NUL byte, parse_slot_data
\* of the bytes save_key_object lays out (fields joined by one NUL, nothing
\* after the last) yields the same four field values.
C14_RoundTrip ==
  codec.done =>
    /\ codec.out.ok
    /\ codec.out.key_name = codec.key_name
    /\ codec.out.slot = ToDecimal(codec.slot_id)
    /\ FromDecimal(codec.out.slot) = codec.slot_id
    /\ codec.out.usage = codec.usage
    /\ codec.out.public_key = codec.public_key

\* C14 witness: a record with an empty usage and a two-byte character in its
\* name has gone through the codec
C14_Witness ==
  /\ codec.done /\ codec.out.ok
  /\ codec.usage = << >>
  /\ codec.key_name = <<195, 169>>
  /\ codec.slot_id = SLOTS[0]

\* the three usage labels of the record format
KnownUsage(usage) == usage \in {StrSign, StrEncrypt, StrDecrypt}
\* the object slots of the pool holding a record of key_id with a known label
Matches(key_id) ==
  {i \in PoolIdx : RecordAt(i).ok /\ RecordAt(i).key_name = key_id
                     /\ KnownUsage(RecordAt(i).usage)}
Lowest(idx) == CHOOSE i \in idx : \A j \in idx : i <= j

\* C15: load_key goes through the object slots in ascending order and the
\* lowest slot holding a record of key_id gives slot_id, usage and public
\* key; absent or undecodable slots before it are passed over, so a record
\* in a later slot is still found.
C15_FirstMatchWins ==
  (last.op = "load_key" /\ Matches(last.key_id) # {}) =>
    \E r \in {RecordAt(Lowest(Matches(last.key_id)))} :
      /\ last.result = "Ok"
      /\ provider.slot_id = SLOTS[Lowest(Matches(last.key_id)) - PairOffset]
      /\ provider.key_usages = (IF r.usage = StrDecrypt THEN "Decrypt" ELSE "SignEncrypt")
      /\ provider.pkey = r.public_key

\* C16: load_key looks at every object slot of the pool, all 10: whichever
\* position holds the lowest well-formed record of key_id, load_key succeeds.
C16_ScansWholePool ==
  last.op = "load_key" =>
    \A p \in PoolIdx :
      (p \in Matches(last.key_id) /\ \A q \in Matches(last.key_id) : p <= q)
        => last.result = "Ok"

\* C17: a 4-field record whose usage is none of "sign", "encrypt", "decrypt"
\* is malformed: find_free_slot takes its slot for free (so never answers
\* with a higher slot), and load_key passes over it without matching it.
C17_UnknownUsageIsMalformed ==
  [][/\ (last'.op = "create_key" /\ ops' = ops + 1 /\ ~last'.found /\ last'.free # 0) =>
          \A i \in PoolIdx :
            \E r \in {parse_slot_data(fetch_object(objects, SLOTS[i]))} :
              (r.ok /\ ~KnownUsage(r.usage))
                => (last'.free \in KeySlotIds /\ last'.free <= SLOTS[i - PairOffset])
     /\ (last'.op = "load_key" /\ ops' = ops + 1 /\ last'.result = "Ok") =>
          Matches(last'.key_id) # {}]_vars

\* the PIN verification of initialize_module on this token fails
PinFails(tok) == tok.present /\ (tok.pin # DefaultPin \/ tok.retries = 0)

\* C18: when PIN authentication fails, initialize_module returns the wrong-PIN
\* error carrying the retry count the device reports after the attempt, and
\* it verifies the PIN once per call: the retry counter drops by at most one.
C18_WrongPinCarriesRetries ==
  [][(last'.op = "initialize_module" /\ ops' = ops + 1) =>
       /\ last'.verifies <= 1
       /\ token'.retries >= token.retries - 1
       /\ token'.limit = token.limit /\ token'.pin = token.pin
       /\ PinFails(token) =>
            /\ last'.result = "WrongPin"
            /\ last'.verifies = 1
            /\ last'.retries = token'.retries
            /\ token'.retries <= token.retries]_vars

\* C18 witness: a failed verification took a retry away and the error
\* carries the count that is left
C18_Witness ==
  /\ last.op = "initialize_module" /\ last.result = "WrongPin"
  /\ last.verifies = 1
  /\ last.retries = token.retries
  /\ token.retries > 0 /\ token.retries < token.limit

\* C19: with no token present initialize_module returns the DeviceNotFound
\* error to its caller, an error value and not an abort, and tries no PIN.
C19_NoTokenReturnsError ==
  [][(last'.op = "initialize_module" /\ ops' = ops + 1 /\ ~token.present) =>
       /\ last'.result = "DeviceNotFound"
       /\ last'.verifies = 0
       /\ token' = token]_vars

\* the usage label the configuration of the call maps to
LabelOfConfig(algo, usage) ==
  IF usage = "Decrypt" THEN StrDecrypt
  ELSE IF algo = "Rsa" THEN StrEncrypt ELSE StrSign

\* C20: after every successful create_key(id, cfg), the re-provisioning of an
\* id whose stored record has another usage included, the provider's
\* key_algorithm and key_usage are those of cfg and the label written is the
\* one cfg maps to (stated for the configurations that have a mapping).
C20_StateFollowsConfig ==
  (CreateOk /\ ~(last.algo = "Ecc" /\ last.usage = "Decrypt")) =>
    /\ provider.key_algo = last.algo
    /\ provider.key_usages = last.usage
    /\ last.save = "ok" => last.label = LabelOfConfig(last.algo, last.usage)

\* C21: when every create_key runs to completion before the next one begins,
\* no create_key for a new key id is given a key slot that an earlier
\* create_key gave to another key id (two keys share a slot only when the
\* free-slot scan of one call interleaves with the record write of another).
C21_SequentialNoDoubleAllocation ==
  [][(/\ last'.op = "create_key" /\ ops' = ops + 1
      /\ ~last'.found /\ last'.result = "Ok" /\ last'.gen = "ok")
       => assigned[last'.genSlot] \subseteq {last'.key_id}]_vars

\* C22: load_key leaves every key slot and every object slot as it was, and
\* the content of an object slot changes only in a create_key call whose key
\* generation has succeeded.
C22_LookupReadOnly ==
  [][/\ last'.op = "load_key" => (objects' = objects /\ keys' = keys)
     /\ objects' # objects => (last'.op = "create_key" /\ last'.gen = "ok")]_vars

\* C23: a load_key call that returns KeyNotFound leaves slot_id, key usage
\* and cached public key of the provider as they were before the call, a
\* scanned record for key_id with an unrecognised usage label included.
C23_FailedLoadKeepsState ==
  [][(last'.op = "load_key" /\ ops' = ops + 1 /\ last'.result = "KeyNotFound")
       => provider' = provider]_vars

====
